---- MODULE Spec2Model ----
(***************************************************************************)
(* A model of the scalar / tensor provenance-and-bound algebra of          *)
(* syft.lib.adp.scalar (PhiScalar, GammaScalar, IntermediatePhiScalar,     *)
(* IntermediateGammaScalar, the ssid2obj symbol table, the sensitivity     *)
(* queries and Scalar's protobuf serialization) and of                     *)
(* syft.core.tensor.autodp.intermediate_gamma (IntermediateGammaTensor).   *)
(*                                                                         *)
(* Numbers are integers.  Python's None is modelled as 0 for the optional  *)
(* arguments id, ssid and entity (a real id, ssid or entity is never 0).   *)
(***************************************************************************)
EXTENDS Integers, Sequences, FiniteSets, TLC

VARIABLES
    heap,       \* the scalar objects created so far, in creation order
    ssid2obj,   \* search.ssid2obj: ssid -> index in heap of the bound object
    nextUID,    \* number of UID() values generated so far
    nextEnt,    \* number of anonymous Entity() objects created so far
    ret,        \* what the last scalar operation did and returned
    tself,      \* tensor operation: the receiver
    tother,     \* tensor operation: the other tensor operand
    tret,       \* tensor operation: what the last operation returned
    wire        \* serialization: what the last _object2proto / _proto2object did

vars == <<heap, ssid2obj, nextUID, nextEnt, ret, tself, tother, tret, wire>>
scalarVars == <<heap, ssid2obj, nextUID, nextEnt, ret>>
tensorVars == <<tself, tother, tret>>

-----------------------------------------------------------------------------
(* Small arithmetic helpers. *)

RECURSIVE Pow(_, _)
Pow(b, e) == IF e = 0 THEN 1 ELSE b * Pow(b, e - 1)

RECURSIVE SumFn(_)
SumFn(f) ==
    IF DOMAIN f = {} THEN 0
    ELSE LET x == CHOOSE y \in DOMAIN f : TRUE
         IN  f[x] + SumFn([y \in DOMAIN f \ {x} |-> f[y]])

RECURSIVE ProdFn(_)
ProdFn(f) ==
    IF DOMAIN f = {} THEN 1
    ELSE LET x == CHOOSE y \in DOMAIN f : TRUE
         IN  f[x] * ProdFn([y \in DOMAIN f \ {x} |-> f[y]])

SetMin(S) == CHOOSE x \in S : \A y \in S : x <= y
SetMax(S) == CHOOSE x \in S : \A y \in S : x >= y

-----------------------------------------------------------------------------
(* Polynomials (sympy expressions built with +, -, * from symbols and      *)
(* numbers) in canonical form: a function from monomials to non-zero       *)
(* integer coefficients; a monomial is a function from symbols (ssids) to  *)
(* exponents >= 1.  The canonical form is what makes free_symbols drop a   *)
(* symbol that cancels (x - x) or is multiplied by 0, as sympy does.       *)

EmptyMono == [s \in {} |-> 0]

PolyConst(c) == IF c = 0 THEN [m \in {} |-> 0] ELSE [m \in {EmptyMono} |-> c]

\* sympy.symbols(ssid)
symbols(ssid) == [m \in {[s \in {ssid} |-> 1]} |-> 1]

Coef(p, m) == IF m \in DOMAIN p THEN p[m] ELSE 0

PolyAdd(p, q) ==
    LET D == DOMAIN p \cup DOMAIN q
    IN  [m \in {m \in D : Coef(p, m) + Coef(q, m) # 0} |-> Coef(p, m) + Coef(q, m)]

PolyNeg(p) == [m \in DOMAIN p |-> -p[m]]

PolySub(p, q) == PolyAdd(p, PolyNeg(q))

MonoMul(a, b) ==
    [s \in DOMAIN a \cup DOMAIN b |->
        (IF s \in DOMAIN a THEN a[s] ELSE 0) + (IF s \in DOMAIN b THEN b[s] ELSE 0)]

PolyMul(p, q) ==
    LET pairs == (DOMAIN p) \X (DOMAIN q)
        monos == {MonoMul(pr[1], pr[2]) : pr \in pairs}
        c(m) == SumFn([pr \in {x \in pairs : MonoMul(x[1], x[2]) = m} |-> p[pr[1]] * q[pr[2]]])
    IN  [m \in {m \in monos : c(m) # 0} |-> c(m)]

\* poly.free_symbols
free_symbols(p) == UNION {DOMAIN m : m \in DOMAIN p}

\* poly.subs(val): the value of p where val maps every free symbol to a number
PolyEval(p, val) ==
    SumFn([m \in DOMAIN p |-> p[m] * ProdFn([s \in DOMAIN m |-> Pow(val[s], m[s])])])

\* sympy.diff(p, s)
PolyDiff(p, s) ==
    LET ms == {m \in DOMAIN p : s \in DOMAIN m}
        lower(m) == [t \in {t \in DOMAIN m : t # s \/ m[s] > 1} |->
                        IF t = s THEN m[s] - 1 ELSE m[t]]
        src(d) == CHOOSE m \in ms : lower(m) = d
    IN  [d \in {lower(m) : m \in ms} |-> p[src(d)] * src(d)[s]]

-----------------------------------------------------------------------------
(* Identifiers.  A UID is a positive integer, the n-th UID() call returns  *)
(* n.  An entity is a non-zero integer: positive for the entities the      *)
(* caller names, -n for the n-th anonymous Entity().  An ssid is an        *)
(* integer: the string built from one id (PhiScalar) and the string built  *)
(* from an id and an entity id (GammaScalar) are encoded injectively (the  *)
(* two formats never give the same string) as numbers >= 0; an ssid the    *)
(* caller passes is any integer other than 0.                              *)

\* an injective pairing of two naturals
Pair(a, b) == ((a + b) * (a + b + 1)) \div 2 + b

\* the entity's id as a part of an ssid string: a number >= 1
EntityPart(entity) == IF entity > 0 THEN 2 * entity ELSE (-2 * entity) - 1

\* str(self.id).split(" ")[1][:-1]
SsidOfId(id) == Pair(id, 0)

\* str(self.id).split(" ")[1][:-1] + "_" + str(self.entity.id).split(" ")[1][:-1]
SsidOfIdEntity(id, entity) == Pair(id, EntityPart(entity))

-----------------------------------------------------------------------------
(* The program state the scalar operations read and write, as one record   *)
(* st = [heap, ssid2obj, nextUID, nextEnt]; an operation returns the new   *)
(* state and the index of the object it returns: [st, ref].                *)

St(h, t, u, e) == [heap |-> h, ssid2obj |-> t, nextUID |-> u, nextEnt |-> e]

Out(st, ref) == [st |-> st, ref |-> ref]

IsOrigin(o) == o.kind \in {"PhiScalar", "GammaScalar"}

\* isinstance(o, IntermediatePhiScalar)
IsPhiTyped(o) == o.kind \in {"PhiScalar", "IntermediatePhiScalar"}

\* isinstance(o, IntermediateGammaScalar)
IsGammaTyped(o) == o.kind \in {"GammaScalar", "IntermediateGammaScalar"}

\* An object: entity is 0 where the class has no entity attribute, ssid is 0
\* and oid (the id OriginScalar.__init__ stored first) is 0 for a derived
\* scalar; gamma is the cached _gamma (0: None).
Obj(kind, poly, id, oid, entity, ssid, mn, v, mx) ==
    [kind |-> kind, poly |-> poly, gamma |-> 0, id |-> id, oid |-> oid,
     entity |-> entity, ssid |-> ssid, min |-> mn, value |-> v, max |-> mx]

\* ssid2obj[ssid] = obj
Bind(t, ssid, ref) == [s \in DOMAIN t \cup {ssid} |-> IF s = ssid THEN ref ELSE t[s]]

\* IntermediateScalar.input_scalars (as heap indices)
input_scalars(st, poly) == {st.ssid2obj[s] : s \in free_symbols(poly)}

\* IntermediateScalar.input_entities
input_entities(st, poly) == {st.heap[i].entity : i \in input_scalars(st, poly)}

\* The bound box of every free symbol of poly: the stored bounds of the leaf
\* the symbol table binds it to.
Box(st, poly) ==
    [s \in free_symbols(poly) |->
        st.heap[st.ssid2obj[s]].min .. st.heap[st.ssid2obj[s]].max]

RECURSIVE Points(_)
Points(box) ==
    IF DOMAIN box = {} THEN {EmptyMono}
    ELSE LET s    == CHOOSE t \in DOMAIN box : TRUE
             rest == Points([t \in DOMAIN box \ {s} |-> box[t]])
         IN  {f @@ (s :> v) : f \in rest, v \in box[s]}

\* search.flatten_and_maximize_poly(poly)[-1].fun: the minimum of poly over
\* the bound box of its free symbols (an exact, converged search).
flatten_and_maximize_poly(st, poly) ==
    SetMin({PolyEval(poly, f) : f \in Points(Box(st, poly))})

\* IntermediateScalar.min_val / OriginScalar.min_val
min_val(st, i) ==
    IF IsOrigin(st.heap[i]) THEN st.heap[i].min
    ELSE flatten_and_maximize_poly(st, st.heap[i].poly)

\* max_val without the negation of the search's result
max_val_NoNegate(st, i) ==
    IF IsOrigin(st.heap[i]) THEN st.heap[i].max
    ELSE flatten_and_maximize_poly(st, PolyNeg(st.heap[i].poly))

\* IntermediateScalar.max_val / OriginScalar.max_val
max_val(st, i) ==
    IF IsOrigin(st.heap[i]) THEN st.heap[i].max
    ELSE -flatten_and_maximize_poly(st, PolyNeg(st.heap[i].poly))

\* IntermediateScalar.value / OriginScalar.value
value(st, i) ==
    IF IsOrigin(st.heap[i]) THEN st.heap[i].value
    ELSE PolyEval(st.heap[i].poly,
                  [s \in free_symbols(st.heap[i].poly) |-> st.heap[st.ssid2obj[s]].value])

-----------------------------------------------------------------------------
(* Constructors. *)

\* OriginScalar.__init__ followed by the ssid choice and the
\* IntermediateScalar.__init__ the leaf classes run: the id argument
\* (or a fresh UID) is stored, the ssid is derived from it, and then
\* IntermediateScalar.__init__ is called without an id and stores a
\* fresh UID over it.
NewLeaf(st, kind, mn, v, mx, entity, id, ssid) ==
    LET oid   == IF id # 0 THEN id ELSE st.nextUID + 1
        u1    == IF id # 0 THEN st.nextUID ELSE st.nextUID + 1
        ent   == IF entity # 0 THEN entity ELSE -(st.nextEnt + 1)
        e1    == IF entity # 0 THEN st.nextEnt ELSE st.nextEnt + 1
        sid   == IF ssid # 0 THEN ssid
                 ELSE IF kind = "PhiScalar" THEN SsidOfId(oid)
                 ELSE SsidOfIdEntity(oid, ent)
        fid   == u1 + 1
        ref   == Len(st.heap) + 1
        o     == Obj(kind, symbols(sid), fid, oid, ent, sid, mn, v, mx)
    IN  Out(St(Append(st.heap, o), Bind(st.ssid2obj, sid, ref), fid, e1), ref)

\* PhiScalar.__init__
PhiScalar(st, mn, v, mx, entity, id, ssid) ==
    NewLeaf(st, "PhiScalar", mn, v, mx, entity, id, ssid)

\* GammaScalar.__init__
GammaScalar(st, mn, v, mx, entity, id, ssid) ==
    NewLeaf(st, "GammaScalar", mn, v, mx, entity, id, ssid)

\* IntermediatePhiScalar.__init__
IntermediatePhiScalar(st, poly, entity) ==
    LET ref == Len(st.heap) + 1
        o   == Obj("IntermediatePhiScalar", poly, st.nextUID + 1, 0, entity, 0, 0, 0, 0)
    IN  Out(St(Append(st.heap, o), st.ssid2obj, st.nextUID + 1, st.nextEnt), ref)

\* IntermediateGammaScalar(poly=...): IntermediateScalar.__init__
IntermediateGammaScalar(st, poly) ==
    LET ref == Len(st.heap) + 1
        o   == Obj("IntermediateGammaScalar", poly, st.nextUID + 1, 0, 0, 0, 0, 0, 0)
    IN  Out(St(Append(st.heap, o), st.ssid2obj, st.nextUID + 1, st.nextEnt), ref)

\* gamma with the entity argument left out: the GammaScalar gets a fresh
\* anonymous entity.
gamma_NoEntity(st, i) ==
    IF st.heap[i].gamma # 0 THEN Out(st, st.heap[i].gamma)
    ELSE LET g  == GammaScalar(st, min_val(st, i), value(st, i), max_val(st, i), 0, 0, 0)
             h1 == [g.st.heap EXCEPT ![i].gamma = g.ref]
         IN  Out([g.st EXCEPT !.heap = h1], g.ref)

\* gamma with value and max_val passed in each other's place
gamma_SwappedArgs(st, i) ==
    IF st.heap[i].gamma # 0 THEN Out(st, st.heap[i].gamma)
    ELSE LET g  == GammaScalar(st, min_val(st, i), max_val(st, i), value(st, i),
                               st.heap[i].entity, 0, 0)
             h1 == [g.st.heap EXCEPT ![i].gamma = g.ref]
         IN  Out([g.st EXCEPT !.heap = h1], g.ref)

\* gamma without the cache: every read builds a new GammaScalar
gamma_NoCache(st, i) ==
    LET g  == GammaScalar(st, min_val(st, i), value(st, i), max_val(st, i),
                          st.heap[i].entity, 0, 0)
        h1 == [g.st.heap EXCEPT ![i].gamma = g.ref]
    IN  Out([g.st EXCEPT !.heap = h1], g.ref)

\* IntermediatePhiScalar.gamma: the cached GammaScalar, built on first use
\* from the current min_val, value and max_val.
gamma(st, i) ==
    IF st.heap[i].gamma # 0 THEN Out(st, st.heap[i].gamma)
    ELSE LET g  == GammaScalar(st, min_val(st, i), value(st, i), max_val(st, i),
                               st.heap[i].entity, 0, 0)
             h1 == [g.st.heap EXCEPT ![i].gamma = g.ref]
         IN  Out([g.st EXCEPT !.heap = h1], g.ref)

-----------------------------------------------------------------------------
(* Arithmetic.  The other operand is [isnum, v]: a plain number v, or the  *)
(* scalar object at heap index v.                                          *)

Num(c) == [isnum |-> TRUE, v |-> c]
Ref(j) == [isnum |-> FALSE, v |-> j]

ArithOps == {"add", "sub", "mul"}

\* self.poly <op> q
PolyOp(op, p, q) ==
    CASE op = "add" -> PolyAdd(p, q)
      [] op = "sub" -> PolySub(p, q)
      [] op = "mul" -> PolyMul(p, q)

\* IntermediateGammaScalar.__add__ / __sub__ / __mul__
GammaArith(op, st, i, other) ==
    IF ~other.isnum
    THEN IF IsPhiTyped(st.heap[other.v])
         THEN LET g == gamma(st, other.v)
              IN  IntermediateGammaScalar(g.st,
                      PolyOp(op, g.st.heap[i].poly, g.st.heap[g.ref].poly))
         ELSE IntermediateGammaScalar(st,
                      PolyOp(op, st.heap[i].poly, st.heap[other.v].poly))
    ELSE IntermediateGammaScalar(st, PolyOp(op, st.heap[i].poly, PolyConst(other.v)))

\* PhiArith without the same-entity fast path: two Phi-typed operands are
\* always promoted.
PhiArith_AlwaysPromote(op, st, i, other) ==
    IF ~other.isnum /\ IsGammaTyped(st.heap[other.v])
    THEN LET g == gamma(st, i)
         IN  GammaArith(op, g.st, g.ref, other)
    ELSE IF other.isnum
    THEN IntermediatePhiScalar(st, PolyOp(op, st.heap[i].poly, PolyConst(other.v)),
                               st.heap[i].entity)
    ELSE LET g1 == gamma(st, i)
             g2 == gamma(g1.st, other.v)
         IN  GammaArith(op, g2.st, g1.ref, Ref(g2.ref))

\* IntermediatePhiScalar.__add__ / __sub__ / __mul__
PhiArith(op, st, i, other) ==
    IF ~other.isnum /\ IsGammaTyped(st.heap[other.v])
    THEN LET g == gamma(st, i)
         IN  GammaArith(op, g.st, g.ref, other)
    ELSE IF other.isnum
    THEN IntermediatePhiScalar(st, PolyOp(op, st.heap[i].poly, PolyConst(other.v)),
                               st.heap[i].entity)
    ELSE IF st.heap[i].entity = st.heap[other.v].entity
    THEN IntermediatePhiScalar(st, PolyOp(op, st.heap[i].poly, st.heap[other.v].poly),
                               st.heap[i].entity)
    ELSE LET g1 == gamma(st, i)
             g2 == gamma(g1.st, other.v)
         IN  GammaArith(op, g2.st, g1.ref, Ref(g2.ref))

\* self <op> other, dispatched on the receiver's class
ScalarArith(op, st, i, other) ==
    IF IsPhiTyped(st.heap[i]) THEN PhiArith(op, st, i, other)
    ELSE GammaArith(op, st, i, other)

-----------------------------------------------------------------------------
(* Sensitivity search.  A float the program returns is represented by its  *)
(* square sq: the returned bound is the r >= 0 with r * r = sq.  A search  *)
(* result is [kind, success, sq]: kind "float" (a plain float), "result"   *)
(* (an OptimizeResult with its success flag, whose fun is -r), "results"   *)
(* (the explicit search's list of results) or "none".                      *)

Lip(kind, success, sq) == [kind |-> kind, success |-> success, sq |-> sq]

NoLip == Lip("none", TRUE, 0)

\* How the optimizer behind a search ends when it is run: it returns a
\* converged result, returns a result that reports no convergence, or raises.
SearchEnds == {"converged", "not_converged", "raises"}

\* search.minimize_function: the optimizer run on an objective whose
\* extremum over the box is `best`.  The value an unconverged result stopped
\* at is not modelled (0).  [raised, ended, lip]
minimize_function(best, ends) ==
    IF ends = "converged"
    THEN [raised |-> FALSE, ended |-> ends, lip |-> Lip("result", TRUE, best)]
    ELSE IF ends = "not_converged"
    THEN [raised |-> FALSE, ended |-> ends, lip |-> Lip("result", FALSE, 0)]
    ELSE [raised |-> TRUE, ended |-> ends, lip |-> NoLip]

\* the input symbols a jacobian search differentiates by: all of them
\* (entity 0: None) or those of the leaves of one entity
Relevant(st, poly, entity) ==
    {s \in free_symbols(poly) : entity = 0 \/ st.heap[st.ssid2obj[s]].entity = entity}

\* the partial derivatives of poly by the relevant inputs
Jacobian(st, poly, entity) ==
    [s \in Relevant(st, poly, entity) |-> PolyDiff(poly, s)]

\* the squared norm of the partial derivatives jac at the point f
GradSq(jac, f) ==
    SumFn([s \in DOMAIN jac |-> PolyEval(jac[s], f) * PolyEval(jac[s], f)])

\* search.max_lipschitz_via_jacobian(scalars=[self], input_entity=entity)[0][-1]:
\* the partial derivatives by the relevant inputs, maximised in magnitude
\* over the bound box.  Derivatives without free symbols need no search and
\* give a float (ended "none"); otherwise the optimizer is run.
max_lipschitz_via_jacobian(st, poly, entity, ends) ==
    LET jac == Jacobian(st, poly, entity)
        const == \A s \in DOMAIN jac : free_symbols(jac[s]) = {}
        best == SetMax({GradSq(jac, f) : f \in Points(Box(st, poly))})
    IN  IF const THEN [raised |-> FALSE, ended |-> "none", lip |-> Lip("float", TRUE, best)]
        ELSE minimize_function(best, ends)

Call(st, raised, ended, lip) == [st |-> st, raised |-> raised, ended |-> ended, lip |-> lip]

\* IntermediateGammaScalar.max_lipschitz_via_jacobian: what the search
\* returns is handed to the caller
GammaViaJacobian(st, i, entity, ends) ==
    LET r == max_lipschitz_via_jacobian(st, st.heap[i].poly, entity, ends)
    IN  Call(st, r.raised, r.ended, r.lip)

\* IntermediateGammaScalar.max_lipschitz (entity 0) and
\* max_lipschitz_wrt_entity: a float is negated and returned, of any other
\* result -float(result.fun) is returned, whatever its success flag says; a
\* failure raised by the search propagates.
GammaMaxLipschitz(st, i, entity, ends) ==
    LET r == max_lipschitz_via_jacobian(st, st.heap[i].poly, entity, ends)
    IN  IF r.raised THEN Call(st, TRUE, r.ended, NoLip)
        ELSE IF r.lip.kind = "float" THEN Call(st, FALSE, r.ended, Lip("float", TRUE, r.lip.sq))
        ELSE Call(st, FALSE, r.ended, Lip("float", r.lip.success, r.lip.sq))

\* IntermediatePhiScalar.max_lipschitz and max_lipschitz_wrt_entity:
\* self.gamma's
PhiMaxLipschitz(st, i, entity, ends) ==
    LET g == gamma(st, i)
    IN  GammaMaxLipschitz(g.st, g.ref, entity, ends)

\* the inputs of poly in the order the explicit search lists them (the
\* iteration order of a set of symbols: here by ssid)
RECURSIVE InputOrder(_)
InputOrder(S) ==
    IF S = {} THEN <<>> ELSE <<SetMin(S)>> \o InputOrder(S \ {SetMin(S)})

\* r2_diffs of max_lipschitz_via_explicit_search: one new GammaScalar per
\* input scalar, with that input's bounds, value and entity
RECURSIVE r2_diffs(_, _)
r2_diffs(st, inputs) ==
    IF inputs = <<>> THEN st
    ELSE LET x == st.heap[st.ssid2obj[Head(inputs)]]
         IN  r2_diffs(GammaScalar(st, x.min, x.value, x.max, x.entity, 0, 0).st,
                      Tail(inputs))

\* the exponent of the slack 1 / 2 ** 16 of non_negative_additive_terms
SlackExponent == 16

\* The constraints list of max_lipschitz_via_explicit_search.  A constraint
\* {'type': 'ineq', 'fun': f} over the sum s = x[r2_indices_list[i][0]] +
\* x[r2_indices_list[i][1]] of input i and its perturbation is
\* [fun, input, bound]: f1 is s + bound, f2 is -s + bound, each required to
\* be >= 0.  The loop that builds them runs for i in range(2), whatever the
\* number of inputs; bound is read from min_max_list[i] when the function is
\* called (known: FALSE where the list has no such entry).  The last
\* constraint is non_negative_additive_terms.
ExplicitConstraints(st, i) ==
    LET inputs == InputOrder(free_symbols(st.heap[i].poly))
        leaf(k) == st.heap[st.ssid2obj[inputs[k]]]
        fn(j) == LET k == ((j - 1) \div 2) + 1
                 IN  [fun |-> IF j % 2 = 1 THEN "f1" ELSE "f2",
                      input |-> k,
                      known |-> k <= Len(inputs),
                      bound |-> IF k > Len(inputs) THEN 0
                                ELSE IF j % 2 = 1 THEN leaf(k).min ELSE leaf(k).max]
    IN  [j \in 1..4 |-> fn(j)]
        \o <<[fun |-> "non_negative_additive_terms", input |-> 0, known |-> TRUE,
              bound |-> SlackExponent]>>

\* f(x) >= 0 for a box constraint f at a point where the sum is s
Satisfied(cn, s) ==
    IF cn.fun = "f1" THEN s + cn.bound >= 0 ELSE (-s) + cn.bound >= 0

\* IntermediateGammaScalar.max_lipschitz_via_explicit_search: builds the
\* perturbation symbols, then runs the constrained minimisation and returns
\* its results and the objective (the objective's value is not modelled).
GammaExplicitSearch(st, i, ends) ==
    LET st1 == r2_diffs(st, InputOrder(free_symbols(st.heap[i].poly)))
        r   == minimize_function(0, ends)
    IN  IF r.raised THEN Call(st1, TRUE, r.ended, NoLip)
        ELSE Call(st1, FALSE, r.ended, Lip("results", r.lip.success, 0))

-----------------------------------------------------------------------------
(* Actions on scalars. *)

Cur == St(heap, ssid2obj, nextUID, nextEnt)

Refs == 1 .. Len(heap)

Commit(st) ==
    /\ heap' = st.heap
    /\ ssid2obj' = st.ssid2obj
    /\ nextUID' = st.nextUID
    /\ nextEnt' = st.nextEnt

\* What the last operation was and returned: op (its name), a (the receiver,
\* 0 for a constructor), b (the other operand), ref (the returned object, 0
\* if none), outcome ("ok" or "raised"), ended (how the optimizer ended,
\* "none" if none ran), lip (a sensitivity result) and pre (the state before
\* the call).
Ret(op, a, b, ref, outcome, ended, lip, pre) ==
    [op |-> op, a |-> a, b |-> b, ref |-> ref, outcome |-> outcome, ended |-> ended,
     lip |-> lip, pre |-> pre]

\* x = PhiScalar(min_val, value, max_val, entity, id, ssid); the id and ssid
\* arguments are recorded with what the call returned
NewPhi(t, entity, id, ssid) ==
    LET r == PhiScalar(Cur, t[1], t[2], t[3], entity, id, ssid)
    IN  /\ Commit(r.st)
        /\ ret' = Ret("PhiScalar", 0, Num(0), r.ref, "ok", "none", NoLip, Cur)
                      @@ [id |-> id, ssid |-> ssid]
        /\ UNCHANGED <<tensorVars, wire>>

\* x = GammaScalar(min_val, value, max_val, entity, id, ssid)
NewGamma(t, entity, id, ssid) ==
    LET r == GammaScalar(Cur, t[1], t[2], t[3], entity, id, ssid)
    IN  /\ Commit(r.st)
        /\ ret' = Ret("GammaScalar", 0, Num(0), r.ref, "ok", "none", NoLip, Cur)
                      @@ [id |-> id, ssid |-> ssid]
        /\ UNCHANGED <<tensorVars, wire>>

\* heap[i] <op> heap[j]
Arith(op, i, j) ==
    LET r == ScalarArith(op, Cur, i, Ref(j))
    IN  /\ Commit(r.st)
        /\ ret' = Ret(op, i, Ref(j), r.ref, "ok", "none", NoLip, Cur)
        /\ UNCHANGED <<tensorVars, wire>>

\* heap[i] <op> c for a number c
ArithConst(op, i, c) ==
    LET r == ScalarArith(op, Cur, i, Num(c))
    IN  /\ Commit(r.st)
        /\ ret' = Ret(op, i, Num(c), r.ref, "ok", "none", NoLip, Cur)
        /\ UNCHANGED <<tensorVars, wire>>

\* c + heap[i] and c * heap[i]: IntermediateScalar.__radd__ / __rmul__
RArithConst(op, i, c) ==
    LET r == ScalarArith(op, Cur, i, Num(c))
    IN  /\ op \in {"add", "mul"}
        /\ Commit(r.st)
        /\ ret' = Ret("r" \o op, i, Num(c), r.ref, "ok", "none", NoLip, Cur)
        /\ UNCHANGED <<tensorVars, wire>>

\* heap[i].max_lipschitz (entity 0) or heap[i].max_lipschitz_wrt_entity(entity)
MaxLipschitz(i, entity, ends) ==
    LET r == IF IsPhiTyped(heap[i]) THEN PhiMaxLipschitz(Cur, i, entity, ends)
             ELSE GammaMaxLipschitz(Cur, i, entity, ends)
        op == IF entity = 0 THEN "max_lipschitz" ELSE "max_lipschitz_wrt_entity"
    IN  /\ Commit(r.st)
        /\ ret' = Ret(op, i, Num(entity), 0, IF r.raised THEN "raised" ELSE "ok",
                      r.ended, r.lip, Cur)
        /\ UNCHANGED <<tensorVars, wire>>

\* heap[i].max_lipschitz_via_jacobian(input_entity=entity), on a gamma-typed value
ViaJacobian(i, entity, ends) ==
    LET r == GammaViaJacobian(Cur, i, entity, ends)
    IN  /\ IsGammaTyped(heap[i])
        /\ Commit(r.st)
        /\ ret' = Ret("max_lipschitz_via_jacobian", i, Num(entity), 0,
                      IF r.raised THEN "raised" ELSE "ok", r.ended, r.lip, Cur)
        /\ UNCHANGED <<tensorVars, wire>>

\* heap[i].max_lipschitz_via_explicit_search(), on a gamma-typed value; the
\* constraints it hands to the optimizer are recorded with what it returned
ExplicitSearch(i, ends) ==
    LET r == GammaExplicitSearch(Cur, i, ends)
    IN  /\ IsGammaTyped(heap[i])
        /\ Commit(r.st)
        /\ ret' = Ret("max_lipschitz_via_explicit_search", i, Num(0), 0,
                      IF r.raised THEN "raised" ELSE "ok", r.ended, r.lip, Cur)
                      @@ [constraints |-> ExplicitConstraints(Cur, i)]
        /\ UNCHANGED <<tensorVars, wire>>

-----------------------------------------------------------------------------
(* Serialization.  An optional value is <<v>> when present and <<>> when   *)
(* it is None.  A Scalar_PB message is a record of the fields              *)
(* _object2proto fills.                                                    *)

None == <<>>
Some(v) == <<v>>

\* the instance attributes the constructors assign: OriginScalar.__init__
\* (id, _value, _min_val, _max_val, entity), the leaf constructors (ssid),
\* IntermediateScalar.__init__ (poly, _gamma, id) and
\* IntermediatePhiScalar.__init__ (entity); and the properties of the classes
Attrs(o) ==
    {"id", "poly", "_gamma", "value", "min_val", "max_val"}
        \cup (IF IsOrigin(o) THEN {"_value", "_min_val", "_max_val", "entity", "ssid"} ELSE {})
        \cup (IF o.kind = "IntermediatePhiScalar" THEN {"entity"} ELSE {})

\* the attributes _object2proto reads, in the order it reads them
ProtoReads == <<"id", "name", "_value", "_min_val", "_max_val", "entity_name">>

\* the value of an attribute the object has
GetAttr(o, a) ==
    CASE a = "id" -> Some(o.id)
      [] a = "_value" -> Some(o.value)
      [] a = "_min_val" -> Some(o.min)
      [] a = "_max_val" -> Some(o.max)
      [] a = "entity" -> Some(o.entity)
      [] a = "name" -> o.name
      [] a = "entity_name" -> o.entity_name

Scalar_PB(id, name, v, mn, mx, entity_name) ==
    [id |-> id,
     has_name |-> name # None, name |-> IF name # None THEN name[1] ELSE "",
     has_value |-> v # None, value |-> IF v # None THEN v[1] ELSE 0,
     has_min_val |-> mn # None, min_val |-> IF mn # None THEN mn[1] ELSE 0,
     has_max_val |-> mx # None, max_val |-> IF mx # None THEN mx[1] ELSE 0,
     has_entity_name |-> entity_name # None,
     entity_name |-> IF entity_name # None THEN entity_name[1] ELSE ""]

NoProto == Scalar_PB(0, None, None, None, None, None)

\* what a serialization call did: op, raised ("" if it returned, else the
\* exception), the receiver a (0 if none), the message and the decoded object
Wire(op, raised, a, proto, obj) ==
    [op |-> op, raised |-> raised, a |-> a, proto |-> proto, obj |-> obj]

NoObject == [id |-> 0, name |-> None, value |-> None, min_val |-> None,
             max_val |-> None, entity |-> None]

\* Scalar._object2proto: reading an attribute the object does not have
\* raises AttributeError
object2proto(o) ==
    IF \E k \in DOMAIN ProtoReads : ProtoReads[k] \notin Attrs(o)
    THEN [raised |-> "AttributeError", proto |-> NoProto]
    ELSE [raised |-> "",
          proto |-> Scalar_PB(o.id, GetAttr(o, "name"), GetAttr(o, "_value"),
                              GetAttr(o, "_min_val"), GetAttr(o, "_max_val"),
                              GetAttr(o, "entity_name"))]

\* Scalar(**kwargs): the class defines no __init__, so any argument raises
\* TypeError
Scalar(kwargs) ==
    IF DOMAIN kwargs # {} THEN [raised |-> "TypeError", obj |-> NoObject]
    ELSE [raised |-> "", obj |-> NoObject]

\* Scalar._proto2object
proto2object(proto) ==
    Scalar([id |-> proto.id,
            name |-> IF proto.has_name THEN Some(proto.name) ELSE None,
            value |-> IF proto.has_value THEN Some(proto.value) ELSE None,
            min_val |-> IF proto.has_min_val THEN Some(proto.min_val) ELSE None,
            max_val |-> IF proto.has_max_val THEN Some(proto.max_val) ELSE None,
            entity |-> IF proto.has_entity_name THEN Some(proto.entity_name) ELSE None])

NoWire == wire = Wire("init", "", 0, NoProto, NoObject)

\* heap[i]._object2proto()
Object2Proto(i) ==
    LET r == object2proto(heap[i])
    IN  /\ wire' = Wire("_object2proto", r.raised, i, r.proto, NoObject)
        /\ UNCHANGED <<scalarVars, tensorVars>>

\* Scalar._proto2object(proto)
Proto2Object(proto) ==
    LET r == proto2object(proto)
    IN  /\ wire' = Wire("_proto2object", r.raised, 0, proto, r.obj)
        /\ UNCHANGED <<scalarVars, tensorVars>>

-----------------------------------------------------------------------------
(* Spec: two leaves built as PhiScalar(min_val, value, max_val, entity),   *)
(* then chains of +, -, * in which every operation takes the most recently *)
(* created object as its receiver or as its other operand.                 *)

\* <<min_val, value, max_val, entity>> of the leaves the caller constructs
LeafArgs == {<<-1, 0, 1, 1>>, <<-2, -1, 0, 2>>, <<1, 1, 2, 0>>}
Consts == {-1, 2}
MaxOps == 2

Empty == St(<<>>, [s \in {} |-> 0], 0, 0)

\* the number of arithmetic operations performed: each creates one derived scalar
NumOps == Cardinality({i \in Refs : ~IsOrigin(heap[i])})

Last == Len(heap)

InitRet(st) == Ret("init", 0, Num(0), 0, "ok", "none", NoLip, st)

NoTensors ==
    /\ tself = 0
    /\ tother = 0
    /\ tret = 0

TwoLeaves(a, b) ==
    LET x == PhiScalar(Empty, a[1], a[2], a[3], a[4], 0, 0)
        y == PhiScalar(x.st, b[1], b[2], b[3], b[4], 0, 0)
    IN  y.st

Init ==
    /\ \E a \in LeafArgs, b \in LeafArgs :
          /\ heap = TwoLeaves(a, b).heap
          /\ ssid2obj = TwoLeaves(a, b).ssid2obj
          /\ nextUID = TwoLeaves(a, b).nextUID
          /\ nextEnt = TwoLeaves(a, b).nextEnt
          /\ ret = InitRet(TwoLeaves(a, b))
    /\ NoTensors
    /\ NoWire

ChainStep(op, i, j) ==
    /\ NumOps < MaxOps
    /\ Last \in {i, j}
    /\ Arith(op, i, j)

Next ==
    \/ \E op \in ArithOps, i \in Refs, j \in Refs : ChainStep(op, i, j)
    \/ \E op \in ArithOps, c \in Consts : NumOps < MaxOps /\ ArithConst(op, Last, c)

Spec == Init /\ [][Next]_vars

-----------------------------------------------------------------------------
(* SpecScenario: the leaves of the end-to-end scenario, entity X = 1 with  *)
(* PhiScalar(0, 5, 10) and entity Y = 2 with PhiScalar(0, 3, 10), the one  *)
(* arithmetic operation of the scenario on them, and sensitivity queries   *)
(* on the newest object.                                                   *)

ScenarioArgs == {<<0, 5, 10, 1>>, <<0, 3, 10, 2>>}

InitScenario ==
    /\ \E a \in ScenarioArgs, b \in ScenarioArgs :
          /\ heap = TwoLeaves(a, b).heap
          /\ ssid2obj = TwoLeaves(a, b).ssid2obj
          /\ nextUID = TwoLeaves(a, b).nextUID
          /\ nextEnt = TwoLeaves(a, b).nextEnt
          /\ ret = InitRet(TwoLeaves(a, b))
    /\ NoTensors
    /\ NoWire

NextScenario ==
    \/ \E op \in ArithOps, i \in Refs, j \in Refs : NumOps = 0 /\ Arith(op, i, j)
    \/ \E op \in ArithOps, c \in Consts : NumOps = 0 /\ ArithConst(op, Last, c)
    \/ \E op \in ArithOps, c \in Consts : NumOps = 0 /\ RArithConst(op, Last, c)
    \/ \E e \in {0, 1, 2} : MaxLipschitz(Last, e, "converged")

SpecScenario == InitScenario /\ [][NextScenario]_vars

-----------------------------------------------------------------------------
(* Tensors.  An IntermediateGammaTensor is [term, coeff, bias, sf]: the    *)
(* term tensor and the coefficient tensor along their trailing axis (the   *)
(* leading shape is (), so each is a sequence of integers), the bias (one  *)
(* integer) and the identity of the symbol_factory.                        *)

\* IntermediateGammaTensor.__init__
IntermediateGammaTensor(term_tensor, coeff_tensor, symbol_factory, bias_tensor) ==
    [term |-> term_tensor, coeff |-> coeff_tensor, bias |-> bias_tensor,
     sf |-> symbol_factory]

\* What a tensor operation returned: op, other (the number of a scalar
\* operand, 0 otherwise), raised ("" if it returned, else the exception),
\* res (the tensor returned, NoTensor if none) and the operands as they were
\* when the call began.
NoTensor == IntermediateGammaTensor(<<>>, <<>>, 0, 0)

TRet(op, other, raised, res, pself, pother) ==
    [op |-> op, other |-> other, raised |-> raised, res |-> res,
     pself |-> pself, pother |-> pother]

Returned(t) == [raised |-> "", res |-> t]
Raised(e) == [raised |-> e, res |-> NoTensor]

\* __add__ with a number
TensorAddConst(self, c) ==
    Returned(IntermediateGammaTensor(self.term, self.coeff, self.sf, self.bias + c))

\* __add__ without the symbol_factory comparison
TensorAdd_NoCheck(self, other) ==
    Returned(IntermediateGammaTensor(self.term \o other.term, self.coeff \o other.coeff,
                                     self.sf, self.bias + other.bias))

\* IntermediateGammaTensor.__add__ with a tensor: both trailing axes are
\* concatenated, the biases added
TensorAdd(self, other) ==
    IF self.sf # other.sf THEN Raised("Exception")
    ELSE Returned(IntermediateGammaTensor(self.term \o other.term, self.coeff \o other.coeff,
                                          self.sf, self.bias + other.bias))

\* __mul__ with a number
TensorMulConst(self, c) ==
    Returned(IntermediateGammaTensor(self.term, [k \in DOMAIN self.coeff |-> self.coeff[k] * c],
                                     self.sf, self.bias * c))

\* the first loop nest of __mul__: a[self_dim] * b[other_dim], self_dim outermost
CrossLoop(a, b) ==
    [k \in 1..(Len(a) * Len(b)) |-> a[((k - 1) \div Len(b)) + 1] * b[((k - 1) % Len(b)) + 1]]

\* the third loop of __mul__: it runs once per element of self's tensor
\* and every time reads other's tensor at self_dim, which the loop before
\* left at self's last position
StaleLoop(a, b, scale) == [k \in 1..Len(a) |-> b[Len(a)] * scale]

\* IntermediateGammaTensor.__mul__ with a tensor
TensorMul(self, other) ==
    IF self.sf # other.sf THEN Raised("Exception")
    ELSE IF Len(self.term) > Len(other.term) \/ Len(self.coeff) > Len(other.coeff)
    THEN Raised("IndexError")
    ELSE LET terms  == CrossLoop(self.term, other.term) \o self.term
                           \o StaleLoop(self.term, other.term, 1)
             coeffs == CrossLoop(self.coeff, other.coeff)
                           \o [k \in DOMAIN self.coeff |-> self.coeff[k] * other.bias]
                           \o StaleLoop(self.coeff, other.coeff, self.bias)
         IN  Returned(IntermediateGammaTensor(terms, coeffs, self.sf, self.bias * other.bias))

\* c = a + b, c = a * b on the two tensors; c = a + n, c = a * n on a number
TAdd ==
    LET r == TensorAdd(tself, tother)
    IN  /\ tret' = TRet("add", 0, r.raised, r.res, tself, tother)
        /\ UNCHANGED <<tself, tother>>
        /\ UNCHANGED <<scalarVars, wire>>

TMul ==
    LET r == TensorMul(tself, tother)
    IN  /\ tret' = TRet("mul", 0, r.raised, r.res, tself, tother)
        /\ UNCHANGED <<tself, tother>>
        /\ UNCHANGED <<scalarVars, wire>>

TAddConst(c) ==
    LET r == TensorAddConst(tself, c)
    IN  /\ tret' = TRet("add_number", c, r.raised, r.res, tself, tother)
        /\ UNCHANGED <<tself, tother>>
        /\ UNCHANGED <<scalarVars, wire>>

TMulConst(c) ==
    LET r == TensorMulConst(tself, c)
    IN  /\ tret' = TRet("mul_number", c, r.raised, r.res, tself, tother)
        /\ UNCHANGED <<tself, tother>>
        /\ UNCHANGED <<scalarVars, wire>>

-----------------------------------------------------------------------------
(* Reductions.  The receiver of sum and prod has the shape (k,): its term  *)
(* and coefficient tensors are k rows of equal length (the trailing axis)  *)
(* and its bias tensor is a sequence of k integers; the only axis to       *)
(* reduce is dim = 0.                                                      *)

\* np.swapaxes(a, 0, -1) of a two-dimensional array
swapaxes(a) == [c \in 1..Len(a[1]) |-> [r \in 1..Len(a) |-> a[r][c]]]

\* a.squeeze(0): axis 0 is removed if its size is one, else ValueError
squeeze(a) ==
    IF Len(a) = 1 THEN [raised |-> "", arr |-> a[1]]
    ELSE [raised |-> "ValueError", arr |-> <<>>]

\* a.prod(0) of a two-dimensional array and of a vector
prod2(a) == [c \in 1..Len(a[1]) |-> ProdFn([r \in 1..Len(a) |-> a[r][c]])]
prod1(v) == ProdFn(v)

\* IntermediateGammaTensor(**kwargs): a keyword that is no parameter of
\* __init__, or a missing parameter, raises TypeError
Construct(kwargs) ==
    IF DOMAIN kwargs # {"term_tensor", "coeff_tensor", "symbol_factory", "bias_tensor"}
    THEN Raised("TypeError")
    ELSE Returned(IntermediateGammaTensor(kwargs.term_tensor, kwargs.coeff_tensor,
                                          kwargs.symbol_factory, kwargs.bias_tensor))

\* IntermediateGammaTensor.sum: the bias of the result is np.sum(dim), the
\* number dim itself
TensorSum(self, dim) ==
    LET new_term_tensor  == squeeze(swapaxes(self.term))
        new_coeff_tensor == squeeze(swapaxes(self.coeff))
        new_bias_tensor  == dim
    IN  IF new_term_tensor.raised # "" THEN Raised(new_term_tensor.raised)
        ELSE IF new_coeff_tensor.raised # "" THEN Raised(new_coeff_tensor.raised)
        ELSE Construct([term_tensor |-> new_term_tensor.arr,
                        coeff_tensor |-> new_coeff_tensor.arr,
                        bias_tensor |-> new_bias_tensor,
                        symbol_factory |-> self.sf])

\* IntermediateGammaTensor.prod: the result is constructed with the keyword
\* bias_Tensor
TensorProd(self, dim) ==
    Construct([term_tensor |-> prod2(self.term),
               coeff_tensor |-> prod2(self.coeff),
               bias_Tensor |-> prod1(self.bias),
               symbol_factory |-> self.sf])

\* r = a.sum(dim), r = a.prod(dim)
TSum(dim) ==
    LET r == TensorSum(tself, dim)
    IN  /\ tret' = TRet("sum", dim, r.raised, r.res, tself, tother)
        /\ UNCHANGED <<tself, tother>>
        /\ UNCHANGED <<scalarVars, wire>>

TProd(dim) ==
    LET r == TensorProd(tself, dim)
    IN  /\ tret' = TRet("prod", dim, r.raised, r.res, tself, tother)
        /\ UNCHANGED <<tself, tother>>
        /\ UNCHANGED <<scalarVars, wire>>

-----------------------------------------------------------------------------
(* SpecTensor: two tensors with equally long term and coefficient tensors, *)
(* and the four operations on them.                                        *)

TermVals == {2, 3}
CoeffVals == {1, 2}
BiasVals == {0, 2}
Factories == {1, 2}
MaxTerms == 2

SeqsUpTo(S, n) == UNION {[1..k -> S] : k \in 1..n}

Tensors(factories) ==
    {IntermediateGammaTensor(t, c, f, b) :
        t \in SeqsUpTo(TermVals, MaxTerms), c \in SeqsUpTo(CoeffVals, MaxTerms),
        f \in factories, b \in BiasVals}

InitTensor ==
    /\ heap = Empty.heap
    /\ ssid2obj = Empty.ssid2obj
    /\ nextUID = Empty.nextUID
    /\ nextEnt = Empty.nextEnt
    /\ ret = InitRet(Empty)
    /\ tself \in {t \in Tensors({1}) : Len(t.term) = Len(t.coeff)}
    /\ tother \in {t \in Tensors(Factories) : Len(t.term) = Len(t.coeff)}
    /\ tret = TRet("init", 0, "", NoTensor, tself, tother)
    /\ NoWire

NextTensor ==
    \/ TAdd
    \/ TMul
    \/ \E c \in Consts : TAddConst(c)
    \/ \E c \in Consts : TMulConst(c)

SpecTensor == InitTensor /\ [][NextTensor]_vars

-----------------------------------------------------------------------------
(* SpecReduce: one tensor of shape (k,) and its reductions along axis 0.   *)

RowCounts == {1, 2}
Dims == {0}

\* the k x n arrays over S
Arrays(S, k, n) == [1..k -> [1..n -> S]]

InitReduce ==
    /\ heap = Empty.heap
    /\ ssid2obj = Empty.ssid2obj
    /\ nextUID = Empty.nextUID
    /\ nextEnt = Empty.nextEnt
    /\ ret = InitRet(Empty)
    /\ \E k \in RowCounts, n \in 1..MaxTerms :
          \E t \in Arrays(TermVals, k, n), c \in Arrays(CoeffVals, k, n),
             b \in [1..k -> BiasVals] :
                tself = IntermediateGammaTensor(t, c, 1, b)
    /\ tother = NoTensor
    /\ tret = TRet("init", 0, "", NoTensor, tself, tother)
    /\ NoWire

NextReduce ==
    \/ \E dim \in Dims : TSum(dim)
    \/ \E dim \in Dims : TProd(dim)

SpecReduce == InitReduce /\ [][NextReduce]_vars

-----------------------------------------------------------------------------
(* SpecPromotion: a leaf of entity 1 and a leaf of entity 2, chains of     *)
(* arithmetic on them, and sensitivity queries on the newest object.       *)

PromotionArgs == {<<(<<-1, 0, 1, 1>>), (<<-2, -1, 0, 2>>)>>, <<(<<1, 1, 2, 1>>), (<<-2, -1, 0, 2>>)>>}

InitPromotion ==
    /\ \E ab \in PromotionArgs :
          /\ heap = TwoLeaves(ab[1], ab[2]).heap
          /\ ssid2obj = TwoLeaves(ab[1], ab[2]).ssid2obj
          /\ nextUID = TwoLeaves(ab[1], ab[2]).nextUID
          /\ nextEnt = TwoLeaves(ab[1], ab[2]).nextEnt
          /\ ret = InitRet(TwoLeaves(ab[1], ab[2]))
    /\ NoTensors
    /\ NoWire

NextPromotion ==
    \/ \E op \in ArithOps, i \in Refs, j \in Refs : ChainStep(op, i, j)
    \/ \E op \in ArithOps, c \in Consts : NumOps < MaxOps /\ ArithConst(op, Last, c)
    \/ \E e \in {1, 2}, ends \in SearchEnds : MaxLipschitz(Last, e, ends)

SpecPromotion == InitPromotion /\ [][NextPromotion]_vars

-----------------------------------------------------------------------------
(* SpecSearch: two leaves, one arithmetic operation and sensitivity queries *)
(* on the newest object, with an optimizer that converges or not.           *)

SearchArgs == {<<(<<-1, 0, 1, 1>>), (<<-2, -1, 0, 1>>)>>, <<(<<-1, 0, 1, 1>>), (<<-2, -1, 0, 2>>)>>}
QueryEntities == {0, 1}
MaxSearchSymbols == 1

\* the GammaScalars built by explicit searches: those that are no Phi
\* scalar's cached promotion
SearchSymbols ==
    {i \in Refs : heap[i].kind = "GammaScalar" /\ \A j \in Refs : heap[j].gamma # i}

InitSearch ==
    /\ \E ab \in SearchArgs :
          /\ heap = TwoLeaves(ab[1], ab[2]).heap
          /\ ssid2obj = TwoLeaves(ab[1], ab[2]).ssid2obj
          /\ nextUID = TwoLeaves(ab[1], ab[2]).nextUID
          /\ nextEnt = TwoLeaves(ab[1], ab[2]).nextEnt
          /\ ret = InitRet(TwoLeaves(ab[1], ab[2]))
    /\ NoTensors
    /\ NoWire

\* the receivers of the queries: the newest object and the Phi scalar it
\* is the cached promotion of
QueryTargets == {i \in Refs : i = Last \/ heap[i].gamma = Last}

NextSearch ==
    \/ \E op \in ArithOps, i \in Refs, j \in Refs : NumOps = 0 /\ Arith(op, i, j)
    \/ \E i \in QueryTargets, e \in QueryEntities, ends \in SearchEnds : MaxLipschitz(i, e, ends)
    \/ \E i \in QueryTargets, e \in QueryEntities, ends \in SearchEnds : ViaJacobian(i, e, ends)
    \/ \E i \in QueryTargets, ends \in SearchEnds :
          Cardinality(SearchSymbols) < MaxSearchSymbols /\ ExplicitSearch(i, ends)

SpecSearch == InitSearch /\ [][NextSearch]_vars

-----------------------------------------------------------------------------
(* SpecRegistry: leaves constructed one after the other, with or without a *)
(* caller-chosen id and ssid, and one arithmetic operation.                *)

\* <<min_val, value, max_val>> of the leaves
RegistryArgs == {<<-1, 0, 1>>}
RegistryEntities == {1, 2}
\* the id argument: None (0) or a UID the caller holds
GivenIds == {0, 100}
\* an ssid string the caller makes up
GivenSsids == {-1}
MaxLeaves == 2

\* the ssid argument: None (0), a made-up string or the ssid of the newest object
SsidArgs == {0} \cup GivenSsids \cup {heap[i].ssid : i \in {j \in Refs : j = Last}}

NumLeaves == Cardinality({i \in Refs : IsOrigin(heap[i])})

InitRegistry ==
    /\ heap = Empty.heap
    /\ ssid2obj = Empty.ssid2obj
    /\ nextUID = Empty.nextUID
    /\ nextEnt = Empty.nextEnt
    /\ ret = InitRet(Empty)
    /\ NoTensors
    /\ NoWire

NextRegistry ==
    \/ \E t \in RegistryArgs, e \in RegistryEntities, id \in GivenIds, ssid \in SsidArgs :
          NumLeaves < MaxLeaves /\ NewPhi(t, e, id, ssid)
    \/ \E t \in RegistryArgs, e \in RegistryEntities, id \in GivenIds, ssid \in SsidArgs :
          NumLeaves < MaxLeaves /\ NewGamma(t, e, id, ssid)
    \/ \E op \in ArithOps, i \in Refs, j \in Refs :
          NumOps = 0 /\ Last \in {i, j} /\ Arith(op, i, j)

SpecRegistry == InitRegistry /\ [][NextRegistry]_vars

-----------------------------------------------------------------------------
(* SpecWire: two leaves, one arithmetic operation, and serialization of    *)
(* any object and of any message.                                          *)

WireArgs == {<<0, 1, 2, 1>>, <<-1, 0, 1, 2>>}
WireNames == {"", "n"}
WireNumbers == {0, 1}

\* the messages a peer can send
Protos ==
    {[id |-> 1, has_name |-> hn, name |-> n, has_value |-> hv, value |-> v,
      has_min_val |-> hm, min_val |-> 0, has_max_val |-> hm, max_val |-> 2,
      has_entity_name |-> he, entity_name |-> "e"] :
        hn \in BOOLEAN, n \in WireNames, hv \in BOOLEAN, v \in WireNumbers,
        hm \in BOOLEAN, he \in BOOLEAN}

InitWire ==
    /\ \E a \in WireArgs, b \in WireArgs :
          /\ heap = TwoLeaves(a, b).heap
          /\ ssid2obj = TwoLeaves(a, b).ssid2obj
          /\ nextUID = TwoLeaves(a, b).nextUID
          /\ nextEnt = TwoLeaves(a, b).nextEnt
          /\ ret = InitRet(TwoLeaves(a, b))
    /\ NoTensors
    /\ NoWire

NextWire ==
    \/ \E op \in ArithOps, i \in Refs, j \in Refs : NumOps = 0 /\ Arith(op, i, j)
    \/ \E i \in Refs : Object2Proto(i)
    \/ \E proto \in Protos : Proto2Object(proto)

SpecWire == InitWire /\ [][NextWire]_vars

-----------------------------------------------------------------------------
(* Claims about scalar arithmetic. *)

\* the last operation was a <op> b on two scalar objects, both Phi-typed
PhiPhiOp ==
    /\ ret.op \in ArithOps
    /\ ~ret.b.isnum
    /\ IsPhiTyped(heap[ret.a])
    /\ IsPhiTyped(heap[ret.b.v])

\* C1: for Phi-typed a and b of different entities, a + b, a - b and a * b
\* are IntermediateGammaScalars whose input_entities is {a.entity, b.entity}.
C1_DifferentEntitiesPromote ==
    (PhiPhiOp /\ heap[ret.a].entity # heap[ret.b.v].entity)
    => /\ heap[ret.ref].kind = "IntermediateGammaScalar"
       /\ input_entities(Cur, heap[ret.ref].poly)
             = {heap[ret.a].entity, heap[ret.b.v].entity}

\* C1 happens: a derived Phi value and a Phi value of another entity were
\* subtracted or multiplied.
C1_Witness ==
    /\ PhiPhiOp
    /\ heap[ret.a].entity # heap[ret.b.v].entity
    /\ ret.op \in {"sub", "mul"}
    /\ heap[ret.a].kind = "IntermediatePhiScalar"
    /\ heap[ret.ref].kind = "IntermediateGammaScalar"

\* C2: for Phi-typed a and b of the same entity, a + b, a - b and a * b are
\* IntermediatePhiScalars of that entity and nothing is promoted: the result
\* has no gamma form, no operand got one, no GammaScalar was created and the
\* symbol table is as before.  a and b range over leaves and over the results
\* of earlier same-entity and constant operations.
C2_SameEntityStaysPhi ==
    (PhiPhiOp /\ heap[ret.a].entity = heap[ret.b.v].entity)
    => /\ heap[ret.ref].kind = "IntermediatePhiScalar"
       /\ heap[ret.ref].entity = heap[ret.a].entity
       /\ heap[ret.ref].gamma = 0
       /\ ssid2obj = ret.pre.ssid2obj
       /\ Len(heap) = Len(ret.pre.heap) + 1
       /\ \A i \in 1 .. Len(ret.pre.heap) : heap[i] = ret.pre.heap[i]

\* C2 happens: two derived Phi values of one entity (results of a constant and
\* of a same-entity operation) were combined.
C2_Witness ==
    /\ PhiPhiOp
    /\ heap[ret.a].entity = heap[ret.b.v].entity
    /\ ret.a # ret.b.v
    /\ heap[ret.a].kind = "IntermediatePhiScalar"
    /\ heap[ret.ref].kind = "IntermediatePhiScalar"
    /\ Cardinality(free_symbols(heap[ret.ref].poly)) = 2

\* C3: every scalar, constructed or derived, has min_val <= value <= max_val.
C3_BoundInvariant ==
    \A i \in Refs :
        /\ min_val(Cur, i) <= value(Cur, i)
        /\ value(Cur, i) <= max_val(Cur, i)

\* C3 happens: a derived Phi value was promoted and then combined with a
\* value of another entity, and the result's value is strictly inside its
\* bounds.
C3_Witness ==
    \E i \in Refs, j \in Refs :
        /\ heap[i].kind = "IntermediateGammaScalar"
        /\ heap[j].kind = "IntermediatePhiScalar"
        /\ heap[j].gamma # 0
        /\ heap[heap[j].gamma].ssid \in free_symbols(heap[i].poly)
        /\ Cardinality(input_entities(Cur, heap[i].poly)) = 2
        /\ min_val(Cur, i) < value(Cur, i)
        /\ value(Cur, i) < max_val(Cur, i)

-----------------------------------------------------------------------------
(* The end-to-end scenario. *)

\* the scenario's leaves
IsX(o) == o.kind = "PhiScalar" /\ o.min = 0 /\ o.value = 5 /\ o.max = 10 /\ o.entity = 1
IsY(o) == o.kind = "PhiScalar" /\ o.min = 0 /\ o.value = 3 /\ o.max = 10 /\ o.entity = 2

\* object i is what x + y returns: the sum of the symbols of x.gamma and y.gamma
IsXPlusY(i) ==
    \E x \in Refs, y \in Refs :
        /\ IsX(heap[x]) /\ IsY(heap[y])
        /\ heap[x].gamma # 0 /\ heap[y].gamma # 0
        /\ heap[i].kind = "IntermediateGammaScalar"
        /\ heap[i].poly = PolyAdd(heap[heap[x].gamma].poly, heap[heap[y].gamma].poly)

\* C4: s = x + y is gamma-typed with value 8, max_val 20 and min_val 0, and
\* s.max_lipschitz_wrt_entity(X) returns the float 1.0 (the float r >= 0 with
\* r * r = 1): both right after the addition, where the query is evaluated on
\* the state reached, and in every state in which the query was made.
C4_Scenario ==
    /\ (ret.op = "add" /\ ~ret.b.isnum /\ IsX(heap[ret.a]) /\ IsY(heap[ret.b.v]))
       => /\ IsGammaTyped(heap[ret.ref])
          /\ IsXPlusY(ret.ref)
          /\ value(Cur, ret.ref) = 8
          /\ max_val(Cur, ret.ref) = 20
          /\ min_val(Cur, ret.ref) = 0
          /\ GammaMaxLipschitz(Cur, ret.ref, 1, "converged")
                = Call(Cur, FALSE, "none", Lip("float", TRUE, 1))
    /\ (ret.op = "max_lipschitz_wrt_entity" /\ ret.b.v = 1 /\ IsXPlusY(ret.a))
       => /\ ret.outcome = "ok"
          /\ ret.lip = Lip("float", TRUE, 1)
          /\ value(Cur, ret.a) = 8
          /\ max_val(Cur, ret.a) = 20
          /\ min_val(Cur, ret.a) = 0

\* C4 happens: s = x + y was built and s.max_lipschitz_wrt_entity(X) returned
C4_Witness ==
    /\ ret.op = "max_lipschitz_wrt_entity"
    /\ ret.b.v = 1
    /\ IsXPlusY(ret.a)
    /\ ret.outcome = "ok"

-----------------------------------------------------------------------------
(* Claims about tensors. *)

\* the last operation multiplied two tensors of one symbol_factory
SameFactoryMul == tret.op = "mul" /\ tret.pself.sf = tret.pother.sf

\* C5: multiplying two tensors of one symbol_factory whose term tensors
\* have trailing lengths m and n succeeds and gives a term tensor and a
\* coefficient tensor of trailing length m*n + m + n.
C5_TermCountLaw ==
    SameFactoryMul =>
        LET m == Len(tret.pself.term)
            n == Len(tret.pother.term)
        IN  /\ tret.raised = ""
            /\ Len(tret.res.term) = m * n + m + n
            /\ Len(tret.res.coeff) = m * n + m + n

\* the (term, coefficient) pairs of a tensor, position by position
Pairs(term, coeff) == [k \in DOMAIN term |-> <<term[k], coeff[k]>>]

\* the number of positions of the sequence q that hold p
Count(q, p) == Cardinality({k \in DOMAIN q : q[k] = p})

SameMultiset(q, r) ==
    \A p \in {q[k] : k \in DOMAIN q} \cup {r[k] : k \in DOMAIN r} : Count(q, p) = Count(r, p)

\* every (t_i*u_j, c_i*d_j), every (t_i, c_i*e) and every (u_j, d_j*b)
ExpectedPairs(a, b) ==
    [k \in 1..(Len(a.term) * Len(b.term)) |->
        <<a.term[((k - 1) \div Len(b.term)) + 1] * b.term[((k - 1) % Len(b.term)) + 1],
          a.coeff[((k - 1) \div Len(b.term)) + 1] * b.coeff[((k - 1) % Len(b.term)) + 1]>>]
    \o [k \in DOMAIN a.term |-> <<a.term[k], a.coeff[k] * b.bias>>]
    \o [k \in DOMAIN b.term |-> <<b.term[k], b.coeff[k] * a.bias>>]

\* C6: the product of two tensors of one symbol_factory holds, as its
\* positional (term, coefficient) pairs, exactly every cross pair, every
\* pair of self scaled by other's bias and every pair of other scaled by
\* self's bias, each once, and its bias is the product of the biases.
C6_PairsPreserved ==
    SameFactoryMul =>
        /\ tret.raised = ""
        /\ Len(tret.res.term) = Len(tret.res.coeff)
        /\ SameMultiset(Pairs(tret.res.term, tret.res.coeff),
                        ExpectedPairs(tret.pself, tret.pother))
        /\ tret.res.bias = tret.pself.bias * tret.pother.bias

\* C7: adding or multiplying two tensors of different symbol_factory raises
\* the exception, returns no tensor and leaves both operands as they were;
\* with one symbol_factory that exception is not raised.
C7_FactoryMismatchFails ==
    tret.op \in {"add", "mul"} =>
        /\ tself = tret.pself
        /\ tother = tret.pother
        /\ tret.pself.sf # tret.pother.sf => (tret.raised = "Exception" /\ tret.res = NoTensor)
        /\ tret.pself.sf = tret.pother.sf => tret.raised # "Exception"

\* a multiplication of tensors of different symbol_factory has raised
C7_Witness ==
    /\ tret.op = "mul"
    /\ tself.sf # tother.sf
    /\ tret.raised = "Exception"

\* the rows of a two-dimensional array one after the other
RECURSIVE Flatten(_)
Flatten(a) == IF a = <<>> THEN <<>> ELSE Head(a) \o Flatten(Tail(a))

\* C14: sum(dim) returns a tensor of the original shape without axis dim
\* whose term and coefficient tensors have equal shapes and hold every
\* (term, coefficient) pair of the reduced axis along the trailing axis, and
\* whose bias is the original bias summed along dim.
C14_SumKeepsPairs ==
    tret.op = "sum" =>
        /\ tret.raised = ""
        /\ Len(tret.res.term) = Len(Flatten(tret.pself.term))
        /\ Len(tret.res.coeff) = Len(tret.res.term)
        /\ SameMultiset(Pairs(tret.res.term, tret.res.coeff),
                        Pairs(Flatten(tret.pself.term), Flatten(tret.pself.coeff)))
        /\ tret.res.bias = SumFn(tret.pself.bias)

\* C15: prod(dim) returns a new tensor whose term, coefficient and bias
\* tensors are the original ones reduced by product along dim and whose
\* symbol_factory is the original's; the original is unchanged.
C15_ProdReduces ==
    tret.op = "prod" =>
        /\ tret.raised = ""
        /\ tret.res.term = prod2(tret.pself.term)
        /\ tret.res.coeff = prod2(tret.pself.coeff)
        /\ tret.res.bias = prod1(tret.pself.bias)
        /\ tret.res.sf = tret.pself.sf
        /\ tself = tret.pself

-----------------------------------------------------------------------------
(* Claims about the sensitivity search. *)

LipschitzOps == {"max_lipschitz", "max_lipschitz_wrt_entity"}

QueryOps ==
    LipschitzOps \cup {"max_lipschitz_via_jacobian", "max_lipschitz_via_explicit_search"}

\* C8: whenever the search behind max_lipschitz or max_lipschitz_wrt_entity
\* reports a result that did not converge, the call ends in a failure and
\* returns no float.
C8_FailsLoudly ==
    (ret.op \in LipschitzOps /\ ret.ended = "not_converged")
        => (ret.outcome = "raised" /\ ret.lip.kind # "float")

\* the Symbol Table keys bound since the last call began
NewKeys == DOMAIN ssid2obj \ DOMAIN ret.pre.ssid2obj

\* every binding the table had before the last call is still there, unchanged
BindingsKept ==
    \A s \in DOMAIN ret.pre.ssid2obj : s \in DOMAIN ssid2obj /\ ssid2obj[s] = ret.pre.ssid2obj[s]

\* the number of GammaScalars the last query constructs: one on the first
\* promotion of a Phi-typed receiver, one per input scalar in the explicit
\* search, none otherwise
QueryBuilds ==
    LET a == ret.pre.heap[ret.a]
    IN  IF ret.op = "max_lipschitz_via_explicit_search" THEN Cardinality(free_symbols(a.poly))
        ELSE IF ret.op \in LipschitzOps /\ IsPhiTyped(a) /\ a.gamma = 0 THEN 1
        ELSE 0

\* C9 as stated: every sensitivity query leaves the Symbol Table, its key
\* set and every binding, exactly as it was before the call.
C9_TableUnchanged ==
    ret.op \in QueryOps => ssid2obj = ret.pre.ssid2obj

\* C9 amended: a sensitivity query keeps every binding the Symbol Table had
\* and adds bindings only for the GammaScalars it constructs itself: one on
\* the first promotion of a Phi-typed receiver, one per input scalar in the
\* explicit search, none in every other case.
C9_TableOnlyGainsBuiltGammas ==
    ret.op \in QueryOps =>
        /\ BindingsKept
        /\ Cardinality(NewKeys) = QueryBuilds
        /\ \A s \in NewKeys : /\ ssid2obj[s] > Len(ret.pre.heap)
                              /\ heap[ssid2obj[s]].kind = "GammaScalar"
                              /\ heap[ssid2obj[s]].ssid = s

\* an explicit search on a value of two inputs has bound two new symbols
C9_Witness ==
    /\ ret.op = "max_lipschitz_via_explicit_search"
    /\ Cardinality(NewKeys) = 2
    /\ BindingsKept

\* the sums r1 + delta at which the box constraints are compared
SumRange == -4..4

\* C13: for a receiver with n >= 1 inputs the explicit search builds 2n + 1
\* constraints: for every input a pair that is satisfied exactly when the
\* input's min_val <= r1 + delta <= max_val, and last the non-negativity
\* constraint with slack 1/2^16.
C13_BoxConstraints ==
    ret.op = "max_lipschitz_via_explicit_search" =>
        LET pre    == ret.pre
            inputs == InputOrder(free_symbols(pre.heap[ret.a].poly))
            n      == Len(inputs)
            cs     == ret.constraints
        IN  /\ Len(cs) = 2 * n + 1
            /\ \A k \in 1..n :
                  \E a \in DOMAIN cs, b \in DOMAIN cs :
                      /\ a # b
                      /\ cs[a].input = k /\ cs[b].input = k
                      /\ cs[a].known /\ cs[b].known
                      /\ \A v \in SumRange :
                            (Satisfied(cs[a], v) /\ Satisfied(cs[b], v))
                                <=> (/\ pre.heap[pre.ssid2obj[inputs[k]]].min <= v
                                     /\ v <= pre.heap[pre.ssid2obj[inputs[k]]].max)
            /\ cs[Len(cs)].fun = "non_negative_additive_terms"
            /\ cs[Len(cs)].bound = 16
            /\ \A a \in DOMAIN cs : cs[a].known

\* q to the power e
RECURSIVE PolyPow(_, _)
PolyPow(q, e) == IF e = 0 THEN PolyConst(1) ELSE PolyMul(q, PolyPow(q, e - 1))

\* the monomial m as a polynomial with coefficient c, the symbol s replaced by q
MonoSubst(c, m, s, q) ==
    LET rest == [t \in DOMAIN m \ {s} |-> m[t]]
    IN  PolyMul([k \in {rest} |-> c], PolyPow(q, IF s \in DOMAIN m THEN m[s] ELSE 0))

\* p with the symbol s replaced by the polynomial q
RECURSIVE PolySubst(_, _, _)
PolySubst(p, s, q) ==
    IF DOMAIN p = {} THEN p
    ELSE LET m == CHOOSE k \in DOMAIN p : TRUE
         IN  PolyAdd(MonoSubst(p[m], m, s, q),
                     PolySubst([k \in DOMAIN p \ {m} |-> p[k]], s, q))

\* the symbols of poly that are bound to the cached promotion of a Phi scalar
PromotedSymbols(poly) ==
    {s \in free_symbols(poly) : \E j \in Refs : heap[j].gamma = ssid2obj[s]}

\* poly as an expression over the original leaves: every symbol of a
\* promotion replaced by the expression of the Phi scalar it was promoted from
RECURSIVE Expand(_)
Expand(poly) ==
    IF PromotedSymbols(poly) = {} THEN poly
    ELSE LET s == CHOOSE t \in PromotedSymbols(poly) : TRUE
             j == CHOOSE k \in Refs : heap[k].gamma = ssid2obj[s]
         IN  Expand(PolySubst(poly, s, heap[j].poly))

\* the last call asked a value, one of whose inputs is the promotion of a
\* derived Phi expression, for its sensitivity to an entity, and got a bound
PromotedQuery ==
    /\ ret.op = "max_lipschitz_wrt_entity"
    /\ ret.outcome = "ok"
    /\ ret.lip.success
    /\ heap[ret.a].kind = "IntermediateGammaScalar"
    /\ \E s \in free_symbols(heap[ret.a].poly) :
          \E j \in Refs : /\ heap[j].kind = "IntermediatePhiScalar"
                          /\ heap[j].gamma = ssid2obj[s]

\* C16: max_lipschitz_wrt_entity(E) of a value that combines a promoted
\* same-entity Phi expression with a value of another entity is at least the
\* greatest absolute partial derivative, over the bound boxes, of the whole
\* expression by each original leaf of E.  (Bounds are compared squared.)
C16_PromotionKeepsSensitivity ==
    PromotedQuery =>
        LET whole == Expand(heap[ret.a].poly)
        IN  \A s \in free_symbols(whole) :
                heap[ssid2obj[s]].entity = ret.b.v =>
                    \A f \in Points(Box(Cur, whole)) :
                        ret.lip.sq >= PolyEval(PolyDiff(whole, s), f)
                                          * PolyEval(PolyDiff(whole, s), f)

-----------------------------------------------------------------------------
(* Claims about the Symbol Table. *)

\* C10: over leaf constructions, arithmetic and promotions no binding of the
\* Symbol Table is removed or rebound to another object, every leaf is the
\* object its ssid is bound to, and every free symbol of every scalar's poly
\* resolves to a leaf whose own poly is that symbol.
C10_TableIntegrity ==
    /\ BindingsKept
    /\ \A i \in Refs : IsOrigin(heap[i]) =>
          (heap[i].ssid \in DOMAIN ssid2obj /\ ssid2obj[heap[i].ssid] = i)
    /\ \A i \in Refs : \A s \in free_symbols(heap[i].poly) :
          /\ s \in DOMAIN ssid2obj
          /\ IsOrigin(heap[ssid2obj[s]])
          /\ heap[ssid2obj[s]].poly = symbols(s)

\* C12: after PhiScalar(...) or GammaScalar(...) returns, the leaf's id is
\* the id the caller passed (if one was passed), and if no ssid was passed
\* the leaf's ssid is the one derived from the leaf's final id (and, for a
\* GammaScalar, its entity).
C12_LeafIdentity ==
    ret.op \in {"PhiScalar", "GammaScalar"} =>
        LET o == heap[ret.ref]
        IN  /\ ret.id # 0 => o.id = ret.id
            /\ ret.ssid = 0 =>
                  o.ssid = IF o.kind = "PhiScalar" THEN SsidOfId(o.id)
                           ELSE SsidOfIdEntity(o.id, o.entity)

-----------------------------------------------------------------------------
(* Claims about serialization. *)

\* C11: encoding a leaf with _object2proto succeeds and decoding the message
\* with _proto2object succeeds and gives back the leaf's min_val, value,
\* max_val and entity; decoding a message without a name succeeds and gives
\* an object whose name is None.
C11_RoundTrip ==
    /\ (wire.op = "_object2proto" /\ IsOrigin(heap[wire.a])) =>
          /\ wire.raised = ""
          /\ proto2object(wire.proto).raised = ""
          /\ proto2object(wire.proto).obj.min_val = Some(heap[wire.a].min)
          /\ proto2object(wire.proto).obj.value = Some(heap[wire.a].value)
          /\ proto2object(wire.proto).obj.max_val = Some(heap[wire.a].max)
          /\ proto2object(wire.proto).obj.entity # None
    /\ (wire.op = "_proto2object" /\ ~wire.proto.has_name) =>
          (wire.raised = "" /\ wire.obj.name = None)

====
